---- MODULE Spec2Model ----
(***************************************************************************)
(* Object Manager of the kopia repository: the hash-encrypt-dedupe-write   *)
(* pipeline (repo/object_manager.go, found in src/repo/initialize.go from  *)
(* line 140 on) and the seekable reader over indirect objects              *)
(* (src/repo/object_reader.go).                                            *)
(*                                                                         *)
(* Go slices are sequences; Go indices are kept 0-based, so element i of a *)
(* Go slice s is s[i + 1] here.  A nil slice is Nil and a non-nil slice d  *)
(* is <<d>>, because Read tells a nil chunk buffer from an empty one.      *)
(***************************************************************************)
EXTENDS Integers, Sequences, FiniteSets, TLC

\* ------------------------------------------------------------------ bounds
MaxChunks == 3
MaxBuf == 3
MaxOps == 3
\* Width of a block name produced by the formatter (a fixed-width digest);
\* data of up to HashWidth bytes has distinct digests.
HashWidth == 3

\* --------------------------------------------------------------- constants
ByteMod == 256

VARIABLES
    \* blob storage
    storage,              \* blob name -> stored bytes
    \* ObjectManager
    encrypted,            \* formatter family: TRUE encrypting, FALSE plain hash
    stats,                \* ObjectManager.stats
    sizeCache,            \* blockSizeCache: block name -> size
    packIndex,            \* packManager: block name -> data of the pending pack
    packing,              \* packMgr.enabled()
    maxPacked,            \* format.MaxPackedContentLength
    written,              \* the object ids successful writes returned, with their data
    calls,                \* number of manager calls made
    issued,               \* the hashEncryptAndWrite calls made and their bytes
    writeBack,            \* Options.WriteBack
    writeBackWG,          \* ObjectManager.writeBackWG: uploads in flight
    procs,                \* the call each concurrent holder of the manager is in
    \* objectReader fields
    seekTable,
    totalLength,
    currentPosition,
    currentChunkIndex,
    currentChunkData,
    currentChunkPosition,
    \* observation of the last call
    crashed,              \* the goroutine panicked
    last                  \* the last call: arguments, results, reader before it

readerVars == <<seekTable, totalLength, currentPosition, currentChunkIndex,
                currentChunkData, currentChunkPosition>>
mgrVars == <<stats, sizeCache, packIndex, packing, maxPacked, written, calls,
            issued>>
concVars == <<writeBack, writeBackWG, procs>>
vars == <<storage, encrypted, stats, sizeCache, packIndex, packing, maxPacked,
          written, calls, issued, writeBack, writeBackWG, procs, seekTable, totalLength, currentPosition,
          currentChunkIndex, currentChunkData, currentChunkPosition, crashed, last>>

Nil == <<>>
NoError == "nil"
Min(a, b) == IF a < b THEN a ELSE b

\* ------------------------------------------------------------- formatter
\* formatter.ComputeObjectID: a collision-free fixed-width digest of the data.
ComputeObjectID(data) ==
    [i \in 1..HashWidth |-> IF i <= Len(data) THEN data[i] ELSE 0 - 1]

RECURSIVE SumSeq(_)
SumSeq(s) == IF s = <<>> THEN 0 ELSE (Head(s) + 2) + SumSeq(Tail(s))

\* Key stream of the content-derived cipher at byte position k.
KeyStream(objectID, k) == (SumSeq(objectID) + 7 * k + 1) % ByteMod

\* formatter.Encrypt / Decrypt: identity for the plain family, a stream cipher
\* keyed by the object id for the encrypted one; skip is the byte offset.
Encrypt(enc, data, objectID, skip) ==
    IF enc
    THEN [i \in 1..Len(data) |-> (data[i] + KeyStream(objectID, skip + i)) % ByteMod]
    ELSE data

Decrypt(enc, data, objectID, skip) ==
    IF enc
    THEN [i \in 1..Len(data) |->
            (data[i] + ByteMod - KeyStream(objectID, skip + i)) % ByteMod]
    ELSE data

\* --------------------------------------------------------------- storage
HasBlock(st, name) == name \in DOMAIN st

PutBlock(st, name, data) ==
    [n \in (DOMAIN st) \cup {name} |-> IF n = name THEN data ELSE st[n]]

\* strings.HasSuffix
HasSuffix(s, suffix) ==
    /\ Len(suffix) <= Len(s)
    /\ SubSeq(s, Len(s) - Len(suffix) + 1, Len(s)) = suffix

\* ------------------------------------------------------------------ stats
ZeroStats ==
    [HashedBlocks |-> 0, HashedBytes |-> 0, CheckedBlocks |-> 0,
     PresentBlocks |-> 0, EncryptedBytes |-> 0, WrittenBlocks |-> 0,
     WrittenBytes |-> 0, ReadBlocks |-> 0, ReadBytes |-> 0,
     DecryptedBytes |-> 0, ValidBlocks |-> 0, InvalidBlocks |-> 0]

\* Mutant of verifyChecksum: every block counts as valid.
verifyChecksumAccepts(enc, s, data, blockID) ==
    [err |-> NoError, stats |-> [s EXCEPT !.ValidBlocks = @ + 1]]

\* ObjectManager.verifyChecksum: [err, stats].
verifyChecksum(enc, s, data, blockID) ==
    LET expected == ComputeObjectID(data) IN
    IF ~HasSuffix(blockID, expected)
    THEN [err |-> "InvalidChecksum",
          stats |-> [s EXCEPT !.InvalidBlocks = @ + 1]]
    ELSE [err |-> NoError, stats |-> [s EXCEPT !.ValidBlocks = @ + 1]]

\* ObjectManager.newRawReader on a block that no pack index resolves.
\* fault: "none", "index" (the pack-index lookup fails) or "get" (the storage
\* read fails).  Result: [err, data, stats].
newRawReader(st, enc, s, objectID, fault) ==
    IF fault = "index" THEN [err |-> "Storage", data |-> Nil, stats |-> s]
    ELSE IF fault = "get" THEN [err |-> "Storage", data |-> Nil, stats |-> s]
    ELSE IF ~HasBlock(st, objectID)
    THEN [err |-> "NotFound", data |-> Nil, stats |-> s]
    ELSE
      LET payload == st[objectID]
          s1 == [s EXCEPT !.ReadBlocks = @ + 1, !.ReadBytes = @ + Len(payload)]
          plain == Decrypt(enc, payload, objectID, 0)
          s2 == [s1 EXCEPT !.DecryptedBytes = @ + Len(plain)]
          v == verifyChecksum(enc, s2, plain, objectID)
      IN IF v.err # NoError
         THEN [err |-> v.err, data |-> Nil, stats |-> v.stats]
         ELSE [err |-> NoError, data |-> <<plain>>, stats |-> v.stats]

\* ------------------------------------------------------- indirect reader
\* An object reader as a record of the objectReader fields that change.
Reader ==
    [currentPosition |-> currentPosition,
     currentChunkIndex |-> currentChunkIndex,
     currentChunkData |-> currentChunkData,
     currentChunkPosition |-> currentChunkPosition]

\* indirectObjectEntry.endOffset
endOffset(e) == e.Start + e.Length

\* ObjectManager.Open of a raw object id (no Section, Indirect or inline part):
\* the write-back wait, then newRawReader.
OpenRaw(st, enc, s, objectID, fault) == newRawReader(st, enc, s, objectID, fault)

\* objectReader.openCurrentChunk: [r, err, stats].  io.ReadFull fails when the
\* child object is shorter than the entry's Length.
openCurrentChunk(r, tbl, st, enc, s, fault) ==
    LET e == tbl[r.currentChunkIndex + 1]
        o == OpenRaw(st, enc, s, e.Object, fault)
    IN IF o.err # NoError THEN [r |-> r, err |-> o.err, stats |-> o.stats]
       ELSE IF Len(o.data[1]) < e.Length
       THEN [r |-> r, err |-> "UnexpectedEOF", stats |-> o.stats]
       ELSE [r |-> [r EXCEPT !.currentChunkData = <<SubSeq(o.data[1], 1, e.Length)>>,
                             !.currentChunkPosition = 0],
             err |-> NoError, stats |-> o.stats]

\* objectReader.closeCurrentChunk
closeCurrentChunk(r) == [r EXCEPT !.currentChunkData = Nil]

\* The fault of the open of chunk idx in a call whose storage fails at failIdx.
FaultAt(idx, failIdx) == IF idx = failIdx THEN "get" ELSE "none"

\* objectReader.Read, the loop of lines 29-57 and the return of lines 59-63:
\* [r, n, err, buf, stats, panic]; buf is what was copied into the buffer.
RECURSIVE ReadLoop(_, _, _, _, _, _, _, _)
ReadLoop(r, tbl, st, enc, s, remaining, buf, failIdx) ==
    IF remaining <= 0
    THEN [r |-> r, n |-> Len(buf), buf |-> buf, stats |-> s, panic |-> FALSE,
          err |-> IF Len(buf) = 0 THEN "EOF" ELSE NoError]
    ELSE IF r.currentChunkData # Nil
    THEN LET data == r.currentChunkData[1]
             avail == Len(data) - r.currentChunkPosition
             toCopy == Min(avail, remaining)
         IN IF avail = 0
            THEN ReadLoop([closeCurrentChunk(r) EXCEPT !.currentChunkIndex = @ + 1],
                          tbl, st, enc, s, remaining, buf, failIdx)
            ELSE IF avail < 0
            THEN [r |-> r, n |-> 0, buf |-> buf, stats |-> s, panic |-> TRUE,
                  err |-> "panic"]
            ELSE ReadLoop([r EXCEPT !.currentChunkPosition = @ + toCopy,
                                    !.currentPosition = @ + toCopy],
                          tbl, st, enc, s, remaining - toCopy,
                          buf \o SubSeq(data, r.currentChunkPosition + 1,
                                        r.currentChunkPosition + toCopy),
                          failIdx)
    ELSE IF r.currentChunkIndex < Len(tbl)
    THEN LET o == openCurrentChunk(r, tbl, st, enc, s,
                                   FaultAt(r.currentChunkIndex, failIdx))
         IN IF o.err # NoError
            THEN [r |-> o.r, n |-> 0, buf |-> buf, stats |-> o.stats,
                  panic |-> FALSE, err |-> o.err]
            ELSE ReadLoop(o.r, tbl, st, enc, o.stats, remaining, buf, failIdx)
    ELSE [r |-> r, n |-> Len(buf), buf |-> buf, stats |-> s, panic |-> FALSE,
          err |-> IF Len(buf) = 0 THEN "EOF" ELSE NoError]

objectReaderRead(r, tbl, st, enc, n, failIdx) ==
    ReadLoop(r, tbl, st, enc, ZeroStats, n, <<>>, failIdx)

\* objectReader.findChunkIndexForOffset: the index, or PanicIndex when the
\* loop ends and panic("Unreachable code") is reached.
PanicIndex == 0 - 1

RECURSIVE FindLoop(_, _, _, _)
FindLoop(tbl, offset, left, right) ==
    IF left > right THEN PanicIndex
    ELSE LET middle == (left + right) \div 2 IN
         IF offset < tbl[middle + 1].Start
         THEN FindLoop(tbl, offset, left, middle - 1)
         ELSE IF offset >= endOffset(tbl[middle + 1])
         THEN FindLoop(tbl, offset, middle + 1, right)
         ELSE middle

findChunkIndexForOffset(tbl, offset) == FindLoop(tbl, offset, 0, Len(tbl) - 1)

\* objectReader.Seek from line 123 on, for an offset that is not negative:
\* [r, ret, err, stats, panic, loadErr]; loadErr is the error of
\* openCurrentChunk, which line 137 drops.
SeekClamped(r, tbl, total, st, enc, offset, fault) ==
    LET off == IF offset > total THEN total ELSE offset
        index == findChunkIndexForOffset(tbl, off)
    IN IF index = PanicIndex
       THEN [r |-> r, ret |-> 0, err |-> "panic", stats |-> ZeroStats,
             panic |-> TRUE, loadErr |-> NoError]
       ELSE
         LET chunkStartOffset == tbl[index + 1].Start
             r1 == IF index # r.currentChunkIndex
                   THEN [closeCurrentChunk(r) EXCEPT !.currentChunkIndex = index]
                   ELSE r
             o == IF r1.currentChunkData = Nil
                  THEN openCurrentChunk(r1, tbl, st, enc, ZeroStats, fault)
                  ELSE [r |-> r1, err |-> NoError, stats |-> ZeroStats]
             r2 == [o.r EXCEPT !.currentChunkPosition = off - chunkStartOffset,
                               !.currentPosition = off]
         IN [r |-> r2, ret |-> r2.currentPosition, err |-> NoError,
             stats |-> o.stats, panic |-> FALSE, loadErr |-> o.err]

\* Mutant of SeekStart: a negative offset is clamped to the start, not refused.
SeekStartClampsNegative(r, tbl, total, st, enc, offset, fault) ==
    SeekClamped(r, tbl, total, st, enc, IF offset < 0 THEN 0 ELSE offset, fault)

\* objectReader.Seek with whence 0, lines 119-143.
SeekStart(r, tbl, total, st, enc, offset, fault) ==
    IF offset < 0
    THEN [r |-> r, ret |-> 0 - 1, err |-> "InvalidSeek", stats |-> ZeroStats,
          panic |-> FALSE, loadErr |-> NoError]
    ELSE SeekClamped(r, tbl, total, st, enc, offset, fault)

\* The absolute offset Seek resolves (offset, whence) to, lines 111-117.
ResolveOffset(r, total, offset, whence) ==
    IF whence = 1 THEN r.currentPosition + offset
    ELSE IF whence = 2 THEN total + offset
    ELSE offset

objectReaderSeek(r, tbl, total, st, enc, offset, whence, fault) ==
    SeekStart(r, tbl, total, st, enc, ResolveOffset(r, total, offset, whence), fault)

\* ------------------------------------------- the objects the reader is over
\* The bytes of the chunk at [start, start + length): each byte is its offset.
ChunkData(start, length) == [i \in 1..length |-> start + i - 1]

RECURSIVE StartOf(_, _)
StartOf(lens, i) == IF i = 1 THEN 0 ELSE StartOf(lens, i - 1) + lens[i - 1]

\* The seek table the writer produces for chunk lengths lens: contiguous from 0.
TableOf(lens) ==
    [i \in 1..Len(lens) |->
        [Start |-> StartOf(lens, i), Length |-> lens[i],
         Object |-> ComputeObjectID(ChunkData(StartOf(lens, i), lens[i]))]]

\* The chunk lengths the splitter produced: one or two bytes a chunk.
ChunkLengths == {1, 2}
ChunkLensUpTo(max) == UNION {[1..k -> ChunkLengths] : k \in 1..max}
ChunkLens == ChunkLensUpTo(MaxChunks)

\* The blobs hashEncryptAndWrite stored for the chunks of a table.
StorageOf(tbl, enc) ==
    [name \in {tbl[i].Object : i \in 1..Len(tbl)} |->
        LET i == CHOOSE j \in 1..Len(tbl) : tbl[j].Object = name
        IN Encrypt(enc, ChunkData(tbl[i].Start, tbl[i].Length), name, 0)]

\* The whole object, what reading a fresh reader to the end yields.
ReadAll == ChunkData(0, totalLength)

\* The goroutines that hold the manager, and one that is in no call.
Procs == {1, 2}
IdleProc == [kind |-> "idle", pc |-> "idle", f |-> <<>>, w |-> <<>>]

\* A manager without write-back that a single goroutine uses.
SingleHolder ==
    /\ writeBack = 0
    /\ writeBackWG = 0
    /\ procs = [p \in Procs |-> IdleProc]

\* A manager that has written nothing since the chunks were stored.
IdleManager ==
    /\ SingleHolder
    /\ stats = ZeroStats
    /\ sizeCache = <<>>
    /\ packIndex = <<>>
    /\ packing = FALSE
    /\ maxPacked = 0
    /\ written = {}
    /\ calls = 0
    /\ issued = [writes |-> 0, bytes |-> 0]

\* A fresh reader over an object whose chunk lengths are one of tables.
ReaderInitOver(tables) ==
    /\ encrypted = TRUE
    /\ IdleManager
    /\ \E lens \in tables :
         /\ seekTable = TableOf(lens)
         /\ totalLength = endOffset(TableOf(lens)[Len(lens)])
         /\ storage = StorageOf(TableOf(lens), encrypted)
    /\ currentPosition = 0
    /\ currentChunkIndex = 0
    /\ currentChunkData = Nil
    /\ currentChunkPosition = 0
    /\ crashed = FALSE
    /\ last = [op |-> "none", arg |-> 0, whence |-> 0, abs |-> 0, n |-> 0,
               err |-> NoError, buf |-> <<>>, loadErr |-> NoError,
               stats |-> ZeroStats,
               pre |-> [currentPosition |-> 0, currentChunkIndex |-> 0,
                        currentChunkData |-> Nil, currentChunkPosition |-> 0],
               prevOp |-> "none", prevAbs |-> 0, prevWhence |-> 0,
               prevLoadErr |-> NoError]

ReaderInit == ReaderInitOver(ChunkLens)

SetReader(r) ==
    /\ currentPosition' = r.currentPosition
    /\ currentChunkIndex' = r.currentChunkIndex
    /\ currentChunkData' = r.currentChunkData
    /\ currentChunkPosition' = r.currentChunkPosition

\* Read(buffer) with len(buffer) = n; the storage read of chunk failIdx fails
\* (none does when failIdx is -1).  last.stats is what the call added to the
\* manager's counters.
ReadWith(failIdxs) ==
    /\ ~crashed
    /\ \E n \in 0..MaxBuf, failIdx \in failIdxs :
         \E res \in {objectReaderRead(Reader, seekTable, storage, encrypted, n, failIdx)} :
            /\ SetReader(res.r)
            /\ crashed' = res.panic
            /\ last' = [op |-> "Read", arg |-> n, whence |-> 0, abs |-> 0,
                        n |-> res.n, err |-> res.err, buf |-> res.buf,
                        loadErr |-> IF res.err \in {NoError, "EOF"} THEN NoError
                                    ELSE res.err,
                        stats |-> res.stats, pre |-> Reader,
                        prevOp |-> last.op, prevAbs |-> last.abs,
                        prevWhence |-> last.whence, prevLoadErr |-> last.loadErr]
    /\ UNCHANGED <<storage, encrypted, seekTable, totalLength>>
    /\ UNCHANGED <<mgrVars, concVars>>

\* Seek(offset, whence), for every offset that resolves to an absolute offset
\* from one before the start to one past the end; fails says whether the
\* storage read of the chunk load fails.
SeekWith(whences, faults) ==
    /\ ~crashed
    /\ \E abs \in (0 - 1)..(totalLength + 1), whence \in whences, fails \in faults :
         \E offset \in {abs - ResolveOffset(Reader, totalLength, 0, whence)} :
         \E res \in {objectReaderSeek(Reader, seekTable, totalLength, storage,
                                      encrypted, offset, whence,
                                      IF fails THEN "get" ELSE "none")} :
            /\ SetReader(res.r)
            /\ crashed' = res.panic
            /\ last' = [op |-> "Seek", arg |-> offset, whence |-> whence,
                        abs |-> ResolveOffset(Reader, totalLength, offset, whence),
                        n |-> res.ret, err |-> res.err, buf |-> <<>>,
                        loadErr |-> res.loadErr, stats |-> res.stats,
                        pre |-> Reader,
                        prevOp |-> "none", prevAbs |-> 0, prevWhence |-> 0,
                        prevLoadErr |-> NoError]
    /\ UNCHANGED <<storage, encrypted, seekTable, totalLength>>
    /\ UNCHANGED <<mgrVars, concVars>>

Read == ReadWith((0 - 1)..(Len(seekTable) - 1))

Seek == SeekWith(0..2, BOOLEAN)

ReaderNext == Read \/ Seek

SpecReader == ReaderInit /\ [][ReaderNext]_vars

\* ---------------------------------------------------------- object manager
\* What the manager's calls read and write, as one record.
Mgr ==
    [storage |-> storage, stats |-> stats, sizeCache |-> sizeCache,
     packIndex |-> packIndex]

NullObjectID == <<>>

\* The inputs of the model: plaintexts, block-name prefixes and limits.
Data == {<<>>, <<0>>, <<1>>, <<0, 1>>}
Prefixes == {<<>>, <<80>>}
MaxPackedChoices == {0, 1}
WriteFaults == {"none", "size", "encrypt", "put"}
OpenFaults == {"none", "index", "get"}

\* blockSizeCache.getSize: the cached size, or the size storage reports, which
\* is then cached: [size, err, cache].
getSize(m, name, fault) ==
    IF name \in DOMAIN m.sizeCache
    THEN [size |-> m.sizeCache[name], err |-> NoError, cache |-> m.sizeCache]
    ELSE IF fault = "size"
    THEN [size |-> 0, err |-> "Storage", cache |-> m.sizeCache]
    ELSE IF ~HasBlock(m.storage, name)
    THEN [size |-> 0, err |-> "NotFound", cache |-> m.sizeCache]
    ELSE [size |-> Len(m.storage[name]), err |-> NoError,
          cache |-> PutBlock(m.sizeCache, name, Len(m.storage[name]))]

\* packManager.AddToPack: the data joins the group's pending pack under the
\* block name, nothing is uploaded, and the packed object id is the block name.
AddToPack(m, blockID, data) ==
    [m |-> [m EXCEPT !.packIndex = PutBlock(m.packIndex, blockID, data)],
     id |-> blockID, err |-> NoError]

\* The frame of a hashEncryptAndWrite call at its entry.
NewWrite(data, prefix, disablePacking, fault) ==
    [pc |-> "hash", data |-> data, prefix |-> prefix,
     disablePacking |-> disablePacking, fault |-> fault,
     objectID |-> NullObjectID, blockSize |-> 0, sizeErr |-> NoError,
     cipher |-> <<>>, packName |-> Nil, put |-> FALSE,
     ret |-> NullObjectID, err |-> NoError]

Return(f, id, err) == [f EXCEPT !.pc = "done", !.ret = id, !.err = err]

\* Mutant of ShouldPack: the per-call switch is ignored.
ShouldPackIgnoresCall(f) ==
    /\ packing
    /\ maxPacked > 0
    /\ Len(f.data) <= maxPacked

\* The pack decision of line 334.
ShouldPack(f) ==
    /\ ~f.disablePacking
    /\ packing
    /\ maxPacked > 0
    /\ Len(f.data) <= maxPacked

\* Mutant of BlockPresent: the size is compared with the ciphertext, which is
\* not computed yet.
BlockPresentCipherLen(f) == f.sizeErr = NoError /\ f.blockSize = Len(f.cipher)

\* The dedupe decision of line 342.
BlockPresent(f) == f.sizeErr = NoError /\ f.blockSize = Len(f.data)

\* hashEncryptAndWrite, one access to shared state at a time: [m, f].
\* Lines 329-331: the object id and the HashedBlocks counter.
StepHash(m, f) ==
    [m |-> [m EXCEPT !.stats.HashedBlocks = @ + 1],
     f |-> [f EXCEPT !.pc = "hashedBytes",
                     !.objectID = f.prefix \o ComputeObjectID(f.data)]]

\* Line 332.
StepHashedBytes(m, f) ==
    [m |-> [m EXCEPT !.stats.HashedBytes = @ + Len(f.data)],
     f |-> [f EXCEPT !.pc = "pack"]]

\* Lines 334-337.
StepPack(m, f) ==
    IF ShouldPack(f)
    THEN LET a == AddToPack(m, f.prefix \o f.objectID, f.data)
         IN [m |-> a.m,
             f |-> [Return(f, a.id, a.err) EXCEPT
                       !.packName = <<f.prefix \o f.objectID>>]]
    ELSE [m |-> m, f |-> [f EXCEPT !.pc = "getSize"]]

\* Line 340.
StepGetSize(m, f) ==
    LET g == getSize(m, f.objectID, f.fault)
    IN [m |-> [m EXCEPT !.sizeCache = g.cache],
        f |-> [f EXCEPT !.pc = "checked", !.blockSize = g.size, !.sizeErr = g.err]]

\* Mutant of StepChecked: every error of the existence check is taken for
\* "not found".
StepCheckedAnyErrorAbsent(m, f) ==
    [m |-> [m EXCEPT !.stats.CheckedBlocks = @ + 1],
     f |-> IF BlockPresent(f) THEN [f EXCEPT !.pc = "present"]
           ELSE [f EXCEPT !.pc = "encrypt"]]

\* Line 341 and the branches of lines 342 and 348.
StepChecked(m, f) ==
    [m |-> [m EXCEPT !.stats.CheckedBlocks = @ + 1],
     f |-> IF BlockPresent(f) THEN [f EXCEPT !.pc = "present"]
           ELSE IF f.sizeErr # NoError /\ f.sizeErr # "NotFound"
           THEN Return(f, NullObjectID, f.sizeErr)
           ELSE [f EXCEPT !.pc = "encrypt"]]

\* Mutant of StepPresent: the dedupe hit is counted as an upload as well.
StepPresentCountsWrite(m, f) ==
    [m |-> [m EXCEPT !.stats.PresentBlocks = @ + 1,
                     !.stats.WrittenBlocks = @ + 1],
     f |-> Return(f, f.objectID, NoError)]

\* Lines 343-345.
StepPresent(m, f) ==
    [m |-> [m EXCEPT !.stats.PresentBlocks = @ + 1],
     f |-> Return(f, f.objectID, NoError)]

\* Lines 354-358.
StepEncrypt(m, f) ==
    [m |-> [m EXCEPT !.stats.EncryptedBytes = @ + Len(f.data)],
     f |-> IF f.fault = "encrypt" THEN Return(f, NullObjectID, "Crypto")
           ELSE [f EXCEPT !.pc = "writtenBlocks",
                          !.cipher = Encrypt(encrypted, f.data, f.objectID, 0)]]

\* Line 360.
StepWrittenBlocks(m, f) ==
    [m |-> [m EXCEPT !.stats.WrittenBlocks = @ + 1],
     f |-> [f EXCEPT !.pc = "writtenBytes"]]

\* Line 361.
StepWrittenBytes(m, f) ==
    [m |-> [m EXCEPT !.stats.WrittenBytes = @ + Len(f.cipher)],
     f |-> [f EXCEPT !.pc = "put"]]

\* Mutant of StepPut: the plaintext is stored, not the ciphertext.
StepPutPlain(m, f) ==
    IF f.fault = "put"
    THEN [m |-> m, f |-> Return(f, NullObjectID, "Storage")]
    ELSE [m |-> [m EXCEPT !.storage = PutBlock(m.storage, f.objectID, f.data)],
          f |-> [Return(f, f.objectID, NoError) EXCEPT !.put = TRUE]]

\* Mutant of StepPut: the upload is left to a goroutine that has not run when
\* the call returns.
StepPutDeferred(m, f) ==
    IF f.fault = "put"
    THEN [m |-> m, f |-> Return(f, NullObjectID, "Storage")]
    ELSE [m |-> m, f |-> [Return(f, f.objectID, NoError) EXCEPT !.put = TRUE]]

\* Lines 363-367.
StepPut(m, f) ==
    IF f.fault = "put"
    THEN [m |-> m, f |-> Return(f, NullObjectID, "Storage")]
    ELSE [m |-> [m EXCEPT !.storage = PutBlock(m.storage, f.objectID, f.cipher)],
          f |-> [Return(f, f.objectID, NoError) EXCEPT !.put = TRUE]]

WriteStep(m, f) ==
    CASE f.pc = "hash" -> StepHash(m, f)
      [] f.pc = "hashedBytes" -> StepHashedBytes(m, f)
      [] f.pc = "pack" -> StepPack(m, f)
      [] f.pc = "getSize" -> StepGetSize(m, f)
      [] f.pc = "checked" -> StepChecked(m, f)
      [] f.pc = "present" -> StepPresent(m, f)
      [] f.pc = "encrypt" -> StepEncrypt(m, f)
      [] f.pc = "writtenBlocks" -> StepWrittenBlocks(m, f)
      [] f.pc = "writtenBytes" -> StepWrittenBytes(m, f)
      [] f.pc = "put" -> StepPut(m, f)

\* hashEncryptAndWrite run to its return: [m, f].
RECURSIVE RunWrite(_, _)
RunWrite(m, f) ==
    IF f.pc = "done" THEN [m |-> m, f |-> f]
    ELSE LET n == WriteStep(m, f) IN RunWrite(n.m, n.f)

hashEncryptAndWrite(m, data, prefix, disablePacking, fault) ==
    RunWrite(m, NewWrite(data, prefix, disablePacking, fault))

\* The record of a successful write: what Open of the id should yield.
Written(f) ==
    [id |-> f.ret, data |-> f.data, prefix |-> f.prefix, packed |-> f.packName # Nil]

\* One more hashEncryptAndWrite call, of a chunk of n bytes, has been made.
Issue(n) == issued' = [writes |-> issued.writes + 1, bytes |-> issued.bytes + n]

SetMgr(m) ==
    /\ storage' = m.storage
    /\ stats' = m.stats
    /\ sizeCache' = m.sizeCache
    /\ packIndex' = m.packIndex

\* A manager over an empty store, in one of its configurations.
MgrInitWith(families, maxPackeds, writeBacks) ==
    /\ storage = <<>>
    /\ encrypted \in families
    /\ writeBack \in writeBacks
    /\ writeBackWG = 0
    /\ procs = [p \in Procs |-> IdleProc]
    /\ stats = ZeroStats
    /\ sizeCache = <<>>
    /\ packIndex = <<>>
    /\ packing \in BOOLEAN
    /\ maxPacked \in maxPackeds
    /\ written = {}
    /\ calls = 0
    /\ issued = [writes |-> 0, bytes |-> 0]
    /\ seekTable = <<>>
    /\ totalLength = 0
    /\ currentPosition = 0
    /\ currentChunkIndex = 0
    /\ currentChunkData = Nil
    /\ currentChunkPosition = 0
    /\ crashed = FALSE
    /\ last = [op |-> "none", data |-> <<>>, prefix |-> <<>>,
               disablePacking |-> FALSE, fault |-> "none", id |-> NullObjectID,
               err |-> NoError, put |-> FALSE, packName |-> Nil, out |-> Nil,
               pre |-> ZeroStats, known |-> {}, sizeErr |-> NoError,
               preStorage |-> <<>>]

MgrInit == MgrInitWith(BOOLEAN, MaxPackedChoices, {0})

\* A writer hands a chunk to hashEncryptAndWrite.  last.known holds the
\* object id an earlier successful write of the same data, prefix and path
\* (packed or not) returned, if there was one.
Write ==
    /\ calls < MaxOps
    /\ \E data \in Data, prefix \in Prefixes, disablePacking \in BOOLEAN,
          fault \in WriteFaults :
       \E res \in {hashEncryptAndWrite(Mgr, data, prefix, disablePacking, fault)} :
          /\ SetMgr(res.m)
          /\ written' = IF res.f.ret # NullObjectID
                        THEN written \cup {Written(res.f)} ELSE written
          /\ last' = [op |-> "Write", data |-> data, prefix |-> prefix,
                      disablePacking |-> disablePacking, fault |-> fault,
                      id |-> res.f.ret, err |-> res.f.err, put |-> res.f.put,
                      packName |-> res.f.packName, out |-> Nil, pre |-> stats,
                      known |-> {w.id : w \in
                                   {x \in written :
                                      /\ x.data = data /\ x.prefix = prefix
                                      /\ x.packed = (res.f.packName # Nil)}},
                      sizeErr |-> res.f.sizeErr, preStorage |-> storage]
    /\ calls' = calls + 1
    /\ Issue(Len(last'.data))
    /\ UNCHANGED <<encrypted, packing, maxPacked, readerVars, crashed, concVars>>

\* ObjectManager.Open of an object id a write returned: [err, data, stats].
ManagerOpen(m, objectID, fault) ==
    newRawReader(m.storage, encrypted, m.stats, objectID, fault)

Open ==
    /\ calls < MaxOps
    /\ \E w \in written, fault \in OpenFaults :
       \E res \in {ManagerOpen(Mgr, w.id, fault)} :
          /\ stats' = res.stats
          /\ last' = [op |-> "Open", data |-> w.data, prefix |-> w.prefix,
                      disablePacking |-> FALSE, fault |-> fault, id |-> w.id,
                      err |-> res.err, put |-> FALSE,
                      packName |-> IF w.packed THEN <<w.id>> ELSE Nil,
                      out |-> res.data, pre |-> stats, known |-> {w.id},
                      sizeErr |-> NoError, preStorage |-> storage]
    /\ calls' = calls + 1
    /\ UNCHANGED issued
    /\ UNCHANGED <<storage, encrypted, sizeCache, packIndex, packing, maxPacked,
                   written, readerVars, crashed, concVars>>

MgrNext == Write \/ Open

SpecMgr == MgrInit /\ [][MgrNext]_vars

\* ---------------------------------------------------- concurrent holders
\* Goroutines share one manager; each shared access of a call is one step.
WriteBackChoices == {0, 1}
ConcData == {<<0>>, <<0, 1>>}

\* A manager that packs chunks of one byte when packing is on.
ConcInit == MgrInitWith(BOOLEAN, {1}, WriteBackChoices)

\* What a call leaves in last when it returns.
WriteReturn(f) ==
    [op |-> "Write", data |-> f.data, prefix |-> f.prefix,
     disablePacking |-> f.disablePacking, fault |-> f.fault,
     id |-> f.ret, err |-> f.err, put |-> f.put, packName |-> f.packName,
     out |-> Nil, pre |-> stats,
     known |-> {w.id : w \in {x \in written :
                                 /\ x.data = f.data /\ x.prefix = f.prefix
                                 /\ x.packed = (f.packName # Nil)}},
     sizeErr |-> f.sizeErr, preStorage |-> storage]

OpenReturn(w, fault, res) ==
    [op |-> "Open", data |-> w.data, prefix |-> w.prefix,
     disablePacking |-> FALSE, fault |-> fault, id |-> w.id,
     err |-> res.err, put |-> FALSE,
     packName |-> IF w.packed THEN <<w.id>> ELSE Nil,
     out |-> res.data, pre |-> stats, known |-> {w.id},
     sizeErr |-> NoError, preStorage |-> storage]

\* Goroutine p enters hashEncryptAndWrite.
BeginWrite(p) ==
    /\ procs[p].kind = "idle"
    /\ calls < MaxOps
    /\ \E data \in ConcData, disablePacking \in BOOLEAN :
         procs' = [procs EXCEPT ![p] =
                      [kind |-> "write", pc |-> "run", w |-> <<>>,
                       f |-> NewWrite(data, <<>>, disablePacking, "none")]]
    /\ calls' = calls + 1
    /\ Issue(Len(procs'[p].f.data))
    /\ UNCHANGED <<storage, encrypted, stats, sizeCache, packIndex, packing,
                   maxPacked, written, writeBack, writeBackWG, readerVars,
                   crashed, last>>

\* Goroutine p takes the next step of its hashEncryptAndWrite; the step that
\* reaches a return statement returns.
WriteProgress(p) ==
    /\ procs[p].kind = "write"
    /\ \E res \in {WriteStep(Mgr, procs[p].f)} :
         /\ SetMgr(res.m)
         /\ IF res.f.pc = "done"
            THEN /\ procs' = [procs EXCEPT ![p] = IdleProc]
                 /\ written' = IF res.f.ret # NullObjectID
                               THEN written \cup {Written(res.f)} ELSE written
                 /\ last' = WriteReturn(res.f)
            ELSE /\ procs' = [procs EXCEPT ![p].f = res.f]
                 /\ UNCHANGED <<written, last>>
    /\ UNCHANGED <<encrypted, packing, maxPacked, calls, issued, writeBack, writeBackWG,
                   readerVars, crashed>>

\* Goroutine p calls Open with an object id some write has returned.
BeginOpen(p) ==
    /\ procs[p].kind = "idle"
    /\ calls < MaxOps
    /\ \E w \in written :
         procs' = [procs EXCEPT ![p] =
                      [kind |-> "open", pc |-> "wait", w |-> w, f |-> <<>>]]
    /\ calls' = calls + 1
    /\ UNCHANGED issued
    /\ UNCHANGED <<storage, encrypted, stats, sizeCache, packIndex, packing,
                   maxPacked, written, writeBack, writeBackWG, readerVars,
                   crashed, last>>

\* Open, line 219: writeBackWG.Wait() returns once no upload is in flight.
OpenWait(p) ==
    /\ procs[p].kind = "open"
    /\ procs[p].pc = "wait"
    /\ writeBackWG = 0
    /\ procs' = [procs EXCEPT ![p].pc = "read"]
    /\ UNCHANGED <<storage, encrypted, mgrVars, writeBack, writeBackWG,
                   readerVars, crashed, last>>

\* Open, line 259: newRawReader reads the block, storage answering, and
\* returns.
OpenRead(p) ==
    /\ procs[p].kind = "open"
    /\ procs[p].pc = "read"
    /\ \E res \in {ManagerOpen(Mgr, procs[p].w.id, "none")} :
          /\ stats' = res.stats
          /\ last' = OpenReturn(procs[p].w, "none", res)
    /\ procs' = [procs EXCEPT ![p] = IdleProc]
    /\ UNCHANGED <<storage, encrypted, sizeCache, packIndex, packing, maxPacked,
                   written, calls, issued, writeBack, writeBackWG, readerVars,
                   crashed>>

ConcNext ==
    \E p \in Procs :
       BeginWrite(p) \/ WriteProgress(p) \/ BeginOpen(p) \/ OpenWait(p) \/ OpenRead(p)

SpecConc == ConcInit /\ [][ConcNext]_vars

\* ------------------------------------------- a reader over tampered storage
\* How someone with access to the blob store changes a stored blob.
TamperKinds == {"flip", "truncate", "extend"}

Tampered(blob, kind) ==
    IF kind = "flip" THEN [blob EXCEPT ![1] = (@ + 1) % ByteMod]
    ELSE IF kind = "truncate" THEN SubSeq(blob, 1, Len(blob) - 1)
    ELSE Append(blob, 0)

\* The chunks (0-based) whose blob is not what the writer stored.
TamperedChunks ==
    {i \in 0..(Len(seekTable) - 1) :
        storage[seekTable[i + 1].Object]
            # StorageOf(seekTable, encrypted)[seekTable[i + 1].Object]}

ReaderLast(op, arg) ==
    [op |-> op, arg |-> arg, whence |-> 0, abs |-> 0, n |-> 0,
     err |-> NoError, buf |-> <<>>, loadErr |-> NoError, stats |-> ZeroStats,
     pre |-> Reader, prevOp |-> "none", prevAbs |-> 0, prevWhence |-> 0,
     prevLoadErr |-> NoError]

\* The blob of one chunk is changed behind the manager's back, once.
Tamper ==
    /\ ~crashed
    /\ TamperedChunks = {}
    /\ \E i \in 1..Len(seekTable), kind \in TamperKinds :
         /\ storage' = [storage EXCEPT ![seekTable[i].Object] = Tampered(@, kind)]
         /\ last' = ReaderLast("Tamper", i - 1)
    /\ UNCHANGED <<encrypted, seekTable, totalLength, readerVars, crashed>>
    /\ UNCHANGED <<mgrVars, concVars>>

\* ObjectManager.Open of the object id of chunk i of the table; last.stats is
\* what the call added to the manager's counters.
OpenChunk ==
    /\ ~crashed
    /\ \E i \in 1..Len(seekTable), fault \in OpenFaults :
         \E res \in {ManagerOpen(Mgr, seekTable[i].Object, fault)} :
            last' = [ReaderLast("Open", i - 1) EXCEPT
                        !.err = res.err, !.buf = res.data, !.stats = res.stats]
    /\ UNCHANGED <<storage, encrypted, seekTable, totalLength, readerVars, crashed>>
    /\ UNCHANGED <<mgrVars, concVars>>

\* Seek from the start of the object.
SeekFromStart == SeekWith({0}, BOOLEAN)

TamperNext == Read \/ SeekFromStart \/ Tamper \/ OpenChunk

\* Objects of one chunk less than the reader's bound: room for the tampering.
TamperInit == ReaderInitOver(ChunkLensUpTo(MaxChunks - 1))

SpecReaderTamper == TamperInit /\ [][TamperNext]_vars

\* ------------------------------------------- repository object format
\* A []byte is Nil or <<bytes>>; a string is a TLA+ string, "" when unset.
DefaultMaxBlockSize == 20971520
DefaultMinBlockSize == 10485760
DefaultAvgBlockSize == 16777216
DefaultMaxPackedContentLength == 4194304
DefaultMaxPackFileLength == 20971520
RandomLength == 32
DefaultObjectSplitter == "DefaultObjectSplitter"
DefaultObjectFormat == "DefaultObjectFormat"

\* randomBytes(n): n bytes of the system's random source, here all equal to
\* the byte drawn.
randomBytes(n, draw) == <<[i \in 1..n |-> draw]>>

applyDefaultInt(v, def) == IF v = 0 THEN def ELSE v

applyDefaultString(v, def) == IF v = "" THEN def ELSE v

applyDefaultRandomBytes(b, n, draw) == IF b = Nil THEN randomBytes(n, draw) ELSE b

\* Mutant of repositoryObjectFormatFromOptions: noHMAC is not looked at.
formatKeepsHMAC(opt, drawSecret, drawKey) ==
    [Version |-> 1,
     Splitter |-> applyDefaultString(opt.Splitter, DefaultObjectSplitter),
     ObjectFormat |-> applyDefaultString(opt.ObjectFormat, DefaultObjectFormat),
     HMACSecret |-> applyDefaultRandomBytes(opt.ObjectHMACSecret, RandomLength, drawSecret),
     MasterKey |-> applyDefaultRandomBytes(opt.ObjectEncryptionKey, RandomLength, drawKey),
     MaxBlockSize |-> applyDefaultInt(opt.MaxBlockSize, DefaultMaxBlockSize),
     MinBlockSize |-> applyDefaultInt(opt.MinBlockSize, DefaultMinBlockSize),
     AvgBlockSize |-> applyDefaultInt(opt.AvgBlockSize, DefaultAvgBlockSize),
     MaxPackedContentLength |->
         applyDefaultInt(opt.MaxPackedContentLength, DefaultMaxPackedContentLength),
     MaxPackFileLength |->
         applyDefaultInt(opt.MaxPackFileLength, DefaultMaxPackFileLength)]

\* repositoryObjectFormatFromOptions, lines 89-108.
repositoryObjectFormatFromOptions(opt, drawSecret, drawKey) ==
    LET f == [Version |-> 1,
              Splitter |-> applyDefaultString(opt.Splitter, DefaultObjectSplitter),
              ObjectFormat |-> applyDefaultString(opt.ObjectFormat, DefaultObjectFormat),
              HMACSecret |-> applyDefaultRandomBytes(opt.ObjectHMACSecret,
                                                     RandomLength, drawSecret),
              MasterKey |-> applyDefaultRandomBytes(opt.ObjectEncryptionKey,
                                                    RandomLength, drawKey),
              MaxBlockSize |-> applyDefaultInt(opt.MaxBlockSize, DefaultMaxBlockSize),
              MinBlockSize |-> applyDefaultInt(opt.MinBlockSize, DefaultMinBlockSize),
              AvgBlockSize |-> applyDefaultInt(opt.AvgBlockSize, DefaultAvgBlockSize),
              MaxPackedContentLength |->
                  applyDefaultInt(opt.MaxPackedContentLength,
                                  DefaultMaxPackedContentLength),
              MaxPackFileLength |->
                  applyDefaultInt(opt.MaxPackFileLength, DefaultMaxPackFileLength)]
    IN IF opt.noHMAC THEN [f EXCEPT !.HMACSecret = Nil] ELSE f

\* The values the options are drawn from.
StringChoices == {"", "DYNAMIC"}
BytesChoices == {Nil, <<<<>>>>, <<<<7, 9>>>>}
IntChoices == {0 - 1, 0, 7}
Draws == {0, 255}

NewRepositoryOptions ==
    [Splitter : StringChoices, ObjectFormat : StringChoices,
     ObjectHMACSecret : BytesChoices, ObjectEncryptionKey : BytesChoices,
     MinBlockSize : IntChoices, AvgBlockSize : IntChoices,
     MaxBlockSize : IntChoices, MaxPackedContentLength : IntChoices,
     MaxPackFileLength : IntChoices, noHMAC : BOOLEAN]

\* Every variable but storage and last, for a program that has no manager.
NoManager ==
    /\ encrypted = TRUE
    /\ IdleManager
    /\ seekTable = <<>>
    /\ totalLength = 0
    /\ currentPosition = 0
    /\ currentChunkIndex = 0
    /\ currentChunkData = Nil
    /\ currentChunkPosition = 0
    /\ crashed = FALSE

\* A caller holds options it has filled in.
FormatInit ==
    /\ NoManager
    /\ storage = <<>>
    /\ \E opt \in NewRepositoryOptions : last = [op |-> "Options", opt |-> opt]

\* The caller builds the repository object format from its options.
BuildFormat ==
    /\ last.op = "Options"
    /\ \E drawSecret \in Draws, drawKey \in Draws :
         last' = [op |-> "Format", opt |-> last.opt,
                  drawSecret |-> drawSecret, drawKey |-> drawKey,
                  format |-> repositoryObjectFormatFromOptions(last.opt,
                                                               drawSecret, drawKey)]
    /\ UNCHANGED <<storage, encrypted, mgrVars, concVars, readerVars, crashed>>

FormatNext == BuildFormat

SpecFormat == FormatInit /\ [][FormatNext]_vars

\* ------------------------------------------------------------ Initialize
\* The names of the two metadata blobs.
FormatBlock == "MetadataBlockPrefix+formatBlockID"
RepositoryBlock == "MetadataBlockPrefix+repositoryConfigBlockID"
DefaultKeyDerivationAlgorithm == "DefaultKeyDerivationAlgorithm"
DefaultMetadataEncryptionAlgorithm == "DefaultMetadataEncryptionAlgorithm"

\* metadataFormatFromOptions, lines 78-87.
metadataFormatFromOptions(opt, draw) ==
    [SecurityOptions |->
        [KeyDerivationAlgorithm |->
            applyDefaultString(opt.KeyDerivationAlgorithm,
                               DefaultKeyDerivationAlgorithm),
         UniqueID |-> applyDefaultRandomBytes(opt.UniqueID, RandomLength, draw)],
     Version |-> "1",
     EncryptionAlgorithm |->
        applyDefaultString(opt.MetadataEncryptionAlgorithm,
                           DefaultMetadataEncryptionAlgorithm)]

\* json.Marshal: the document that encodes the value.
Marshal(v) == <<"json", v>>

\* creds.GetMasterKey: the key derived from the user's secret and the
\* security options.
GetMasterKey(securityOptions) == <<"masterKey", securityOptions>>

\* MetadataManager.putJSON: the document, encrypted under the master key, is
\* put under the block name.
putJSON(st, masterKey, name, v) ==
    PutBlock(st, name, <<"encrypted", masterKey, Marshal(v)>>)

\* What the callers of Initialize pass: no options (nil stands for the zero
\* options), or options with some fields set.
ZeroOptions ==
    [UniqueID |-> Nil, MetadataEncryptionAlgorithm |-> "",
     KeyDerivationAlgorithm |-> "", ObjectFormat |-> "",
     ObjectHMACSecret |-> Nil, ObjectEncryptionKey |-> Nil, Splitter |-> "",
     MinBlockSize |-> 0, AvgBlockSize |-> 0, MaxBlockSize |-> 0,
     MaxPackedContentLength |-> 0, MaxPackFileLength |-> 0, noHMAC |-> FALSE]

InitOptions ==
    {ZeroOptions,
     [ZeroOptions EXCEPT !.UniqueID = <<<<1, 2>>>>, !.Splitter = "DYNAMIC",
                         !.MaxBlockSize = 7],
     [ZeroOptions EXCEPT !.KeyDerivationAlgorithm = "scrypt",
                         !.ObjectEncryptionKey = <<<<7, 9>>>>, !.noHMAC = TRUE]}

\* Where a call of Initialize fails: nowhere, in the credentials, in the put
\* of the format blob, in initCrypto or in the put of the repository blob.
InitFaults == {"none", "creds", "putFormat", "crypto", "putConfig"}

\* Mutant of Initialize: the format descriptor is persisted before the
\* credentials are asked for the key.
InitializePersistsFirst(st, opt, draw, fault) ==
    LET format == metadataFormatFromOptions(opt, draw)
        st1 == PutBlock(st, FormatBlock, Marshal(format))
    IN IF fault = "putFormat" THEN [err |-> "Storage", storage |-> st]
       ELSE IF fault = "creds" THEN [err |-> "Credentials", storage |-> st1]
       ELSE IF fault = "crypto" THEN [err |-> "CryptoInit", storage |-> st1]
       ELSE IF fault = "putConfig" THEN [err |-> "Storage", storage |-> st1]
       ELSE [err |-> NoError,
             storage |->
                putJSON(st1, GetMasterKey(format.SecurityOptions), RepositoryBlock,
                        [Format |-> repositoryObjectFormatFromOptions(opt, draw, draw)])]

\* Initialize, lines 37-76: [err, storage].
Initialize(st, opt, draw, fault) ==
    LET format == metadataFormatFromOptions(opt, draw)
        masterKey == GetMasterKey(format.SecurityOptions)
        st1 == PutBlock(st, FormatBlock, Marshal(format))
        rc == [Format |-> repositoryObjectFormatFromOptions(opt, draw, draw)]
    IN IF fault = "creds" THEN [err |-> "Credentials", storage |-> st]
       ELSE IF fault = "putFormat" THEN [err |-> "Storage", storage |-> st]
       ELSE IF fault = "crypto" THEN [err |-> "CryptoInit", storage |-> st1]
       ELSE IF fault = "putConfig" THEN [err |-> "Storage", storage |-> st1]
       ELSE [err |-> NoError,
             storage |-> putJSON(st1, masterKey, RepositoryBlock, rc)]

\* A storage nothing has been written to.
InitInit ==
    /\ NoManager
    /\ storage = <<>>
    /\ last = [op |-> "none", opt |-> ZeroOptions, draw |-> 0, fault |-> "none",
               err |-> NoError, preStorage |-> <<>>]

\* Someone calls Initialize on the storage.
CallInitialize ==
    /\ calls < MaxOps
    /\ \E opt \in InitOptions, draw \in Draws, fault \in InitFaults :
       \E res \in {Initialize(storage, opt, draw, fault)} :
          /\ storage' = res.storage
          /\ last' = [op |-> "Initialize", opt |-> opt, draw |-> draw,
                      fault |-> fault, err |-> res.err, preStorage |-> storage]
    /\ calls' = calls + 1
    /\ UNCHANGED <<encrypted, stats, sizeCache, packIndex, packing, maxPacked,
                   written, issued, concVars, readerVars, crashed>>

InitNext == CallInitialize

SpecInit == InitInit /\ [][InitNext]_vars

\* -------------------------------------------------------- indirect lists
\* The stream type tags of the framed record streams.
IndirectStreamType == 73
PackIndexStreamType == 80

\* The textual form of a child object id inside a record, and its parse.
ObjectIDText(objectID) == [i \in 1..Len(objectID) |-> objectID[i] + 1]
ParseObjectID(text) == [i \in 1..Len(text) |-> text[i] - 1]

\* One length-delimited record of an indirect entry.
RecordLength == 2 + HashWidth
EncodeEntry(e) == <<RecordLength, e.Start, e.Length>> \o ObjectIDText(e.Object)

RECURSIVE EncodeEntries(_)
EncodeEntries(tbl) ==
    IF tbl = <<>> THEN <<>>
    ELSE EncodeEntry(Head(tbl)) \o EncodeEntries(Tail(tbl))

\* The indirect list blob the writer's secondary writer produces.
EncodeList(tbl) == <<IndirectStreamType>> \o EncodeEntries(tbl)

\* jsonstream.Reader.Read in the loop of flattenListChunk, from byte p
\* (1-based) on: [err, seekTable].
RECURSIVE ReadEntries(_, _, _)
ReadEntries(bytes, p, acc) ==
    IF p > Len(bytes) THEN [err |-> NoError, seekTable |-> acc]
    ELSE IF bytes[p] # RecordLength \/ p + RecordLength > Len(bytes)
    THEN [err |-> "MalformedStream", seekTable |-> Nil]
    ELSE ReadEntries(bytes, p + RecordLength + 1,
                     Append(acc,
                            [Start |-> bytes[p + 1], Length |-> bytes[p + 2],
                             Object |-> ParseObjectID(
                                 SubSeq(bytes, p + 3, p + RecordLength))]))

\* flattenListChunk, lines 370-394: [err, seekTable]; with no entry read the
\* seek table is the nil slice.
flattenListChunk(bytes) ==
    IF bytes = <<>> \/ bytes[1] # IndirectStreamType
    THEN [err |-> "MalformedStream", seekTable |-> Nil]
    ELSE ReadEntries(bytes, 2, Nil)

\* ObjectManager.Open of Indirect(indirect), lines 230-249:
\* [err, panic, seekTable, totalLength, stats].
OpenIndirect(st, enc, s, indirect, fault) ==
    LET rd == newRawReader(st, enc, s, indirect, fault)
        fl == flattenListChunk(rd.data[1])
    IN IF rd.err # NoError
       THEN [err |-> rd.err, panic |-> FALSE, seekTable |-> Nil,
             totalLength |-> 0, stats |-> rd.stats]
       ELSE IF fl.err # NoError
       THEN [err |-> fl.err, panic |-> FALSE, seekTable |-> Nil,
             totalLength |-> 0, stats |-> rd.stats]
       ELSE IF Len(fl.seekTable) = 0
       THEN [err |-> "index out of range", panic |-> TRUE, seekTable |-> Nil,
             totalLength |-> 0, stats |-> rd.stats]
       ELSE [err |-> NoError, panic |-> FALSE, seekTable |-> fl.seekTable,
             totalLength |-> endOffset(fl.seekTable[Len(fl.seekTable)]),
             stats |-> rd.stats]

\* The list blobs found in storage: what a writer stored for an object of no
\* chunk or of some chunks, whole, cut short by one byte, or under the tag of
\* another kind of stream.
ListKinds == {"whole", "truncated", "otherTag"}
ListTables == {<<>>} \cup {TableOf(lens) : lens \in ChunkLens}

ListBlob(tbl, kind) ==
    LET whole == EncodeList(tbl) IN
    IF kind = "truncated" THEN SubSeq(whole, 1, Len(whole) - 1)
    ELSE IF kind = "otherTag" THEN [whole EXCEPT ![1] = PackIndexStreamType]
    ELSE whole

\* The storage holds one list blob under the id of its content.
IndirectInit ==
    /\ IdleManager
    /\ \E enc \in BOOLEAN, tbl \in ListTables, kind \in ListKinds :
         /\ encrypted = enc
         /\ storage = PutBlock(<<>>, ComputeObjectID(ListBlob(tbl, kind)),
                               Encrypt(enc, ListBlob(tbl, kind),
                                       ComputeObjectID(ListBlob(tbl, kind)), 0))
         /\ last = [op |-> "none", list |-> tbl, kind |-> kind,
                    indirect |-> ComputeObjectID(ListBlob(tbl, kind)),
                    fault |-> "none", err |-> NoError]
    /\ seekTable = <<>>
    /\ totalLength = 0
    /\ currentPosition = 0
    /\ currentChunkIndex = 0
    /\ currentChunkData = Nil
    /\ currentChunkPosition = 0
    /\ crashed = FALSE

\* A caller opens the indirect object id that points at the list blob.
CallOpenIndirect ==
    /\ ~crashed
    /\ calls < MaxOps
    /\ \E fault \in OpenFaults :
       \E res \in {OpenIndirect(storage, encrypted, stats, last.indirect, fault)} :
          /\ stats' = res.stats
          /\ crashed' = res.panic
          /\ IF res.err = NoError
             THEN /\ seekTable' = res.seekTable
                  /\ totalLength' = res.totalLength
                  /\ currentPosition' = 0
                  /\ currentChunkIndex' = 0
                  /\ currentChunkData' = Nil
                  /\ currentChunkPosition' = 0
             ELSE UNCHANGED readerVars
          /\ last' = [last EXCEPT !.op = "OpenIndirect", !.fault = fault,
                                  !.err = res.err]
    /\ calls' = calls + 1
    /\ UNCHANGED <<storage, encrypted, sizeCache, packIndex, packing, maxPacked,
                   written, issued, concVars>>

IndirectNext == CallOpenIndirect

SpecIndirect == IndirectInit /\ [][IndirectNext]_vars

\* ------------------------------------------------------- snapshot expire
\* The most snapshots the repository holds.
MaxSnapshots == 3

Hosts == {"h1", "h2"}
Users == {"u1", "u2"}
Sources == {[Host |-> "h1", UserName |-> "u1"], [Host |-> "h2", UserName |-> "u1"],
            [Host |-> "h1", UserName |-> "u2"]}
ZeroSource == [Host |-> "", UserName |-> ""]

\* A snapshot manifest: its source, whether it is incomplete and how many
\* years ago it started.
Manifests == [Source : Sources, Incomplete : BOOLEAN, Age : {0, 1}]

\* The values of --host and --user ("" when the flag is not given).
HostFlags == {"", "h1"}
UserFlags == {"", "u1"}

\* Expiration policies: KeepLatest and KeepAnnual are nil or hold a count, the
\* other Keep fields are nil.
KeepChoices == {Nil, <<0>>, <<1>>}
Policies == [KeepLatest : KeepChoices, KeepAnnual : KeepChoices]

\* registerSnapshot, lines 96-102: [ids, idCounters, keep].
registerSnapshot(reg, timePeriodID, timePeriodType, max) ==
    IF timePeriodID \notin reg.ids /\ reg.idCounters[timePeriodType] < max
    THEN [ids |-> reg.ids \cup {timePeriodID},
          idCounters |-> [reg.idCounters EXCEPT ![timePeriodType] = @ + 1],
          keep |-> TRUE]
    ELSE reg

\* The body of the loop of expireSnapshotsForSingleSource for snapshot i
\* (0-based), lines 108-117 of the registrations: KeepLatest, then KeepAnnual.
RegisterAll(reg, s, i, pol) ==
    LET r0 == [reg EXCEPT !.keep = FALSE]
        r1 == IF pol.KeepLatest # Nil
              THEN registerSnapshot(r0, <<"latest", i>>, "latest", pol.KeepLatest[1])
              ELSE r0
    IN IF pol.KeepAnnual # Nil /\ s.Age < pol.KeepAnnual[1]
       THEN registerSnapshot(r1, <<"annual", s.Age>>, "annual", pol.KeepAnnual[1])
       ELSE r1

\* expireSnapshotsForSingleSource, lines 59-138, from snapshot i (0-based) on.
RECURSIVE SingleSourceLoop(_, _, _, _, _, _)
SingleSourceLoop(snapshots, pol, snapshotNames, i, reg, toDelete) ==
    IF i >= Len(snapshots) THEN toDelete
    ELSE IF snapshots[i + 1].Incomplete
    THEN SingleSourceLoop(snapshots, pol, snapshotNames, i + 1, reg, toDelete)
    ELSE LET r == RegisterAll(reg, snapshots[i + 1], i, pol) IN
         SingleSourceLoop(snapshots, pol, snapshotNames, i + 1, r,
                          IF r.keep THEN toDelete
                          ELSE Append(toDelete, snapshotNames[i + 1]))

expireSnapshotsForSingleSource(snapshots, pol, snapshotNames) ==
    SingleSourceLoop(snapshots, pol, snapshotNames, 0,
                     [ids |-> {}, idCounters |-> [t \in {"latest", "annual"} |-> 0],
                      keep |-> FALSE],
                     <<>>)

\* flush, lines 179-196: the names to delete after the pending snapshots of
\* one source are evaluated.
Flush(pol, pendingSnapshots, pendingNames, toDelete) ==
    IF Len(pendingSnapshots) > 0
    THEN toDelete \o expireSnapshotsForSingleSource(pendingSnapshots, pol, pendingNames)
    ELSE toDelete

\* expireSnapshots, lines 173-215, from snapshot i (0-based) on.
RECURSIVE ExpireLoop(_, _, _, _, _, _, _, _)
ExpireLoop(pol, snapshots, names, i, lastSource, pendingSnapshots, pendingNames, toDelete) ==
    IF i >= Len(snapshots)
    THEN Flush(pol, pendingSnapshots, pendingNames, toDelete)
    ELSE IF snapshots[i + 1].Source # lastSource
    THEN ExpireLoop(pol, snapshots, names, i + 1, snapshots[i + 1].Source,
                    <<snapshots[i + 1]>>, <<names[i + 1]>>,
                    Flush(pol, pendingSnapshots, pendingNames, toDelete))
    ELSE ExpireLoop(pol, snapshots, names, i + 1, lastSource,
                    Append(pendingSnapshots, snapshots[i + 1]),
                    Append(pendingNames, names[i + 1]), toDelete)

expireSnapshots(pol, snapshots, names) ==
    ExpireLoop(pol, snapshots, names, 0, ZeroSource, <<>>, <<>>, <<>>)

\* The condition of the loop of filterHostAndUser, lines 263-269.
PassesFilter(s, host, user) ==
    /\ ~(host # "" /\ host # s.Source.Host)
    /\ ~(user # "" /\ user # s.Source.UserName)

\* filterHostAndUser, lines 255-275.
filterHostAndUser(snapshots, host, user) ==
    IF host = "" /\ user = "" THEN snapshots
    ELSE SelectSeq(snapshots, LAMBDA s : PassesFilter(s, host, user))

\* runExpireCommand with --all, lines 217-253, up to the names to delete;
\* LoadSnapshots yields the manifest of names[i] at index i, and the snapshot
\* named n is manifests[n].
runExpireCommand(manifests, host, user, pol) ==
    LET snapshotNames == [n \in 1..Len(manifests) |-> n]
        snapshots == filterHostAndUser(manifests, host, user)
    IN expireSnapshots(pol, snapshots, snapshotNames)

\* rep.RemoveMany: the manifests that are left, by name.
RemoveMany(remaining, toDelete) ==
    remaining \ {toDelete[k] : k \in 1..Len(toDelete)}

\* A repository with some snapshots; storage lists their manifests in the
\* order the snapshot manager lists them, and written holds the names of
\* those that have not been removed.
ExpireInit ==
    /\ NoManager
    /\ \E n \in 1..MaxSnapshots : \E manifests \in [1..n -> Manifests] :
         /\ storage = manifests
         /\ last = [op |-> "none", host |-> "", user |-> "", pol |-> Nil,
                    delete |-> FALSE, toDelete |-> <<>>,
                    remaining |-> 1..n]

\* The expire command runs once over all snapshots.
Expire ==
    /\ last.op = "none"
    /\ \E host \in HostFlags, user \in UserFlags, pol \in Policies,
          delete \in BOOLEAN :
       \E toDelete \in {runExpireCommand(storage, host, user, pol)} :
          last' = [op |-> "Expire", host |-> host, user |-> user, pol |-> pol,
                   delete |-> delete, toDelete |-> toDelete,
                   remaining |-> IF delete /\ Len(toDelete) > 0
                                 THEN RemoveMany(last.remaining, toDelete)
                                 ELSE last.remaining]
    /\ UNCHANGED <<storage, encrypted, mgrVars, concVars, readerVars, crashed>>

ExpireNext == Expire

SpecExpire == ExpireInit /\ [][ExpireNext]_vars

\* ------------------------------------------------ claims on the reader
\* What reading [o, o + n) of the whole object yields.
Slice(o, n) == SubSeq(ReadAll, o + 1, Min(o + n, totalLength))

\* C1 (as claimed): Seek(o, start) with 0 <= o <= L succeeds, and the Read of
\* an n-byte buffer (n >= 1) that follows it yields exactly ReadAll[o : o+n].
C1_SeekStability ==
    /\ (last.op = "Seek" /\ last.whence = 0 /\ last.abs \in 0..totalLength)
         => (~crashed /\ last.err = NoError /\ last.n = last.abs)
    /\ (/\ last.op = "Read" /\ last.arg >= 1 /\ last.loadErr = NoError
        /\ last.prevOp = "Seek" /\ last.prevWhence = 0
        /\ last.prevAbs \in 0..totalLength)
         => (/\ last.buf = Slice(last.prevAbs, last.arg)
             /\ last.n = Len(Slice(last.prevAbs, last.arg)))

\* C2 (as claimed): a Seek that resolves past the end of the object clamps: it
\* returns the length with no error and leaves the cursor at the length, and
\* the Read that follows returns EOF.
C2_SeekPastEndClamps ==
    /\ (last.op = "Seek" /\ last.abs > totalLength)
         => (/\ ~crashed
             /\ last.err = NoError
             /\ last.n = totalLength
             /\ currentPosition = totalLength)
    /\ (/\ last.op = "Read" /\ last.arg >= 1 /\ last.loadErr = NoError
        /\ last.prevOp = "Seek" /\ last.prevAbs > totalLength)
         => (last.n = 0 /\ last.err = "EOF")

\* C3 (as claimed): no Seek reaches panic("Unreachable code"): the binary
\* search returns the index of the chunk that holds the offset.
C3_BinarySearchNeverPanics ==
    (last.op = "Seek" /\ last.abs >= 0)
        => (/\ last.err # "panic"
            /\ ~crashed
            /\ currentChunkIndex \in 0..(Len(seekTable) - 1)
            /\ seekTable[currentChunkIndex + 1].Start <= currentPosition
            /\ currentPosition < endOffset(seekTable[currentChunkIndex + 1]))

\* C4 (as claimed): a Read that starts with the cursor before the end of the
\* object and in which every chunk it needs opens does not return EOF,
\* whatever the length of the buffer.
C4_NoEOFBeforeEnd ==
    (/\ last.op = "Read"
     /\ last.pre.currentPosition < totalLength
     /\ last.loadErr = NoError)
        => last.err # "EOF"

\* C5: a Seek whose resolved offset is negative fails with the invalid-seek
\* error and leaves currentPosition, currentChunkIndex, currentChunkPosition
\* and the loaded chunk buffer as they were.
C5_NegativeSeekFails ==
    (last.op = "Seek" /\ last.abs < 0)
        => (/\ last.err = "InvalidSeek"
            /\ last.n = 0 - 1
            /\ ~crashed
            /\ Reader = last.pre)

\* C5 witness: a negative Seek relative to the current position of a reader
\* that is in the middle of a loaded chunk.
C5_Witness ==
    /\ last.op = "Seek" /\ last.abs < 0 /\ last.whence = 1
    /\ last.err = "InvalidSeek"
    /\ last.pre.currentChunkData # Nil
    /\ last.pre.currentPosition > 0

\* C6 (as claimed): a Read of n >= 1 bytes in which all chunks open returns
\* exactly min(n, L - p) bytes from cursor p and advances the cursor by that;
\* Seek(-1, end) then a Read of a larger buffer returns the last byte alone,
\* and a Read at the end returns 0 bytes with EOF.
C6_ReadFillsBuffer ==
    /\ (last.op = "Read" /\ last.arg >= 1 /\ last.loadErr = NoError)
         => (/\ last.n = Min(last.arg, totalLength - last.pre.currentPosition)
             /\ currentPosition = last.pre.currentPosition + last.n
             /\ (last.n = 0 <=> last.err = "EOF"))
    /\ (/\ last.op = "Read" /\ last.arg >= 2 /\ last.loadErr = NoError
        /\ last.prevOp = "Seek" /\ last.prevWhence = 2
        /\ last.prevAbs = totalLength - 1)
         => (last.n = 1 /\ last.buf = <<ReadAll[totalLength]>>)

\* C15: a Seek whose load of the target chunk fails returns that error.
C15_SeekReturnsLoadError ==
    (last.op = "Seek" /\ last.loadErr # NoError) => last.err = last.loadErr

\* C20: the cursor stays within the object and, whenever a chunk is loaded,
\* it is the chunk at currentChunkIndex and the position in the object is the
\* chunk's start plus the position in the chunk.
C20_CursorInvariant ==
    ~crashed
        => (/\ 0 <= currentPosition
            /\ currentPosition <= totalLength
            /\ currentChunkData # Nil
                 => (/\ currentChunkIndex < Len(seekTable)
                     /\ currentChunkData[1]
                          = ChunkData(seekTable[currentChunkIndex + 1].Start,
                                      seekTable[currentChunkIndex + 1].Length)
                     /\ currentPosition
                          = seekTable[currentChunkIndex + 1].Start
                              + currentChunkPosition))

\* ----------------------------------------------- claims on the manager
\* A write returned without error after an earlier successful write of the
\* same data with the same prefix and options.
SecondWrite == last.op = "Write" /\ last.known # {} /\ last.err = NoError

\* C7 (as claimed): in every configuration, packing included, the second
\* write of the same bytes returns the same object id, increments
\* PresentBlocks and uploads nothing.
C7_DedupeEveryConfiguration ==
    SecondWrite
        => (/\ last.known = {last.id}
            /\ stats.PresentBlocks = last.pre.PresentBlocks + 1
            /\ ~last.put)

\* C7 (amended): the second write returns the same object id and uploads
\* nothing; it increments PresentBlocks when the chunk takes the unpacked
\* path, and leaves it alone when the chunk is handed to the pack manager.
C7_Dedupe ==
    SecondWrite
        => (/\ last.known = {last.id}
            /\ ~last.put
            /\ last.packName = Nil
                 => stats.PresentBlocks = last.pre.PresentBlocks + 1
            /\ last.packName # Nil
                 => stats.PresentBlocks = last.pre.PresentBlocks)

\* C7 witness: a non-empty chunk written a second time on the unpacked path.
C7_Witness ==
    /\ SecondWrite
    /\ last.packName = Nil
    /\ Len(last.data) > 0
    /\ stats.PresentBlocks = 1
    /\ stats.WrittenBlocks = 1

LastWrite == last.op = "Write"

\* The counters a write touches from the existence check on.
AfterCheck(s) ==
    <<s.PresentBlocks, s.EncryptedBytes, s.WrittenBlocks, s.WrittenBytes>>

\* C12: when the existence check fails with an error other than NotFound the
\* write returns the null object id with that error, encrypts and stores
\* nothing and leaves PresentBlocks, EncryptedBytes, WrittenBlocks and
\* WrittenBytes as they were.
C12_ExistenceCheckErrorAborts ==
    (LastWrite /\ last.sizeErr \notin {NoError, "NotFound"})
        => (/\ last.id = NullObjectID
            /\ last.err = last.sizeErr
            /\ ~last.put
            /\ storage = last.preStorage
            /\ AfterCheck(stats) = AfterCheck(last.pre)
            /\ stats.CheckedBlocks = last.pre.CheckedBlocks + 1)

\* C12 witness: the size lookup of a non-empty unpacked chunk fails.
C12_Witness ==
    /\ LastWrite
    /\ last.sizeErr = "Storage"
    /\ last.err = "Storage"
    /\ Len(last.data) > 0
    /\ last.prefix # <<>>

\* The write was handed to the pack manager.
Packed == last.packName # Nil

\* C13 (as claimed): the chunk goes to the pack manager exactly when packing
\* is enabled, not disabled for the call and the data is no longer than
\* MaxPackedContentLength, whatever that length is.
C13_PackDecision ==
    LastWrite
        => (Packed <=> (/\ packing
                        /\ ~last.disablePacking
                        /\ Len(last.data) <= maxPacked))

\* C13 (amended): the same with MaxPackedContentLength > 0 as a further
\* condition; a packed chunk is not checked, not encrypted and not stored by
\* the call.
C13_PackDecisionPositiveLimit ==
    LastWrite
        => (/\ Packed <=> (/\ packing
                           /\ ~last.disablePacking
                           /\ maxPacked > 0
                           /\ Len(last.data) <= maxPacked)
            /\ Packed
                 => (/\ last.id # NullObjectID
                     /\ stats.CheckedBlocks = last.pre.CheckedBlocks
                     /\ AfterCheck(stats) = AfterCheck(last.pre)
                     /\ ~last.put
                     /\ storage = last.preStorage))

\* C13 witness: an empty chunk is packed under a positive limit.
C13_Witness ==
    /\ LastWrite /\ Packed
    /\ Len(last.data) = 0
    /\ maxPacked > 0
    /\ stats.HashedBlocks = 2

\* C14: the block name handed to the pack manager is the prefix followed by
\* the content hash, the name the unpacked path returns.
C14_SameBlockName ==
    (LastWrite /\ Packed)
        => last.packName = <<last.prefix \o ComputeObjectID(last.data)>>

\* C18: when no call is in progress, HashedBlocks and HashedBytes count every
\* call made and its bytes; calls with equal data and prefix have returned
\* equal object ids; a blob stored under a returned id is the encryption of
\* the data written.
C18_ConcurrentStats ==
    (\A p \in Procs : procs[p].kind # "write")
        => (/\ stats.HashedBlocks = issued.writes
            /\ stats.HashedBytes = issued.bytes
            /\ \A w1, w2 \in written :
                  (w1.data = w2.data /\ w1.prefix = w2.prefix) => w1.id = w2.id
            /\ \A w \in written :
                  HasBlock(storage, w.id)
                     => storage[w.id] = Encrypt(encrypted, w.data, w.id, 0))

\* The counters of Stats, in a fixed order.
Counters(s) ==
    <<s.HashedBlocks, s.HashedBytes, s.CheckedBlocks, s.PresentBlocks,
      s.EncryptedBytes, s.WrittenBlocks, s.WrittenBytes, s.ReadBlocks,
      s.ReadBytes, s.DecryptedBytes, s.ValidBlocks, s.InvalidBlocks>>

\* C19: in every state, between the steps of concurrent calls too,
\* PresentBlocks + WrittenBlocks <= CheckedBlocks <= HashedBlocks, and no step
\* decreases a counter.
C19_CounterInvariant ==
    /\ [](/\ stats.PresentBlocks + stats.WrittenBlocks <= stats.CheckedBlocks
          /\ stats.CheckedBlocks <= stats.HashedBlocks)
    /\ [][\A i \in 1..Len(Counters(stats)) :
             Counters(stats)[i] <= Counters(stats')[i]]_vars

\* C19 witness: a dedupe hit and an upload have been counted while another
\* call is between its existence check and its own count.
C19_Witness ==
    /\ stats.PresentBlocks >= 1
    /\ stats.WrittenBlocks >= 1
    /\ stats.PresentBlocks + stats.WrittenBlocks < stats.CheckedBlocks
    /\ \E p \in Procs : procs[p].kind = "write" /\ procs[p].f.pc = "present"

\* C22: WrittenBlocks grows by one in exactly the calls whose put succeeded,
\* and a call whose put fails returns the null object id and leaves
\* WrittenBlocks and WrittenBytes as they were.
C22_WrittenCountsCompletedUploads ==
    LastWrite =>
        /\ stats.WrittenBlocks =
              last.pre.WrittenBlocks + (IF last.put THEN 1 ELSE 0)
        /\ (last.fault = "put" /\ last.err # NoError /\ ~last.put)
              => (/\ last.id = NullObjectID
                  /\ stats.WrittenBlocks = last.pre.WrittenBlocks
                  /\ stats.WrittenBytes = last.pre.WrittenBytes)

\* ------------------------------------------------- claims on the format
\* The field is the option's value when that is set, the default otherwise.
OrDefault(v, unset, def) == IF v = unset THEN def ELSE v

SuppliedConsistent(opt) ==
    LET mn == opt.MinBlockSize
        av == opt.AvgBlockSize
        mx == opt.MaxBlockSize
    IN /\ \A v \in {mn, av, mx} : v >= 0
       /\ (mn # 0 /\ av # 0) => mn <= av
       /\ (av # 0 /\ mx # 0) => av <= mx
       /\ (mn # 0 /\ mx # 0) => mn <= mx

\* C25: when the supplied block sizes are consistent among themselves, the
\* format has MinBlockSize <= AvgBlockSize <= MaxBlockSize.
C25_BlockSizesOrdered ==
    (last.op = "Format" /\ SuppliedConsistent(last.opt))
        => /\ last.format.MinBlockSize <= last.format.AvgBlockSize
           /\ last.format.AvgBlockSize <= last.format.MaxBlockSize

\* --------------------------------------------------- claims on Initialize
\* C11: Initialize on a storage that holds the format blob fails with
\* AlreadyInitialized and leaves the storage as it was.
C11_AlreadyInitialized ==
    (last.op = "Initialize" /\ HasBlock(last.preStorage, FormatBlock))
        => (last.err = "AlreadyInitialized" /\ storage = last.preStorage)

\* C16: when the credentials fail to produce the master key, Initialize
\* returns an error and the storage is what it was before the call.
C16_CredentialsFailureWritesNothing ==
    (last.op = "Initialize" /\ last.fault = "creds")
        => (last.err # NoError /\ storage = last.preStorage)

\* C16 witness: the credentials fail on a fresh storage, and on one that a
\* completed Initialize has populated.
C16_Witness ==
    /\ last.op = "Initialize" /\ last.fault = "creds"
    /\ last.err = "Credentials"
    /\ HasBlock(storage, RepositoryBlock)
    /\ last.opt # ZeroOptions

\* C21: a call of Initialize that returns an error never leaves the storage
\* with a format blob that has no repository blob beside it.
C21_AllOrNothing ==
    (last.op = "Initialize" /\ last.err # NoError)
        => ~(HasBlock(storage, FormatBlock) /\ ~HasBlock(storage, RepositoryBlock))

\* ----------------------------------------------- claims on indirect lists
\* C23: Open of an indirect object id never crashes on its list: over a
\* well-framed list of no entries it returns an error or a reader of length
\* 0, and otherwise the reader's length is the end offset of the last entry.
C23_OpenIndirectNeverCrashes ==
    last.op = "OpenIndirect" =>
        /\ ~crashed
        /\ last.err = NoError =>
              totalLength = IF seekTable = <<>> THEN 0
                            ELSE endOffset(seekTable[Len(seekTable)])

\* -------------------------------------------- claims on snapshot expire
\* The names and manifests of the snapshots that pass the host/user filter.
FilteredNames ==
    SelectSeq([n \in 1..Len(storage) |-> n],
              LAMBDA n : PassesFilter(storage[n], last.host, last.user))

\* C24: every name the expire command selects for deletion is the name of a
\* snapshot that passed the host/user filter and that the policy evaluation
\* of its own source marked for deletion.
C24_NamesAligned ==
    last.op = "Expire" =>
        /\ \A k \in 1..Len(last.toDelete) :
              PassesFilter(storage[last.toDelete[k]], last.host, last.user)
        /\ last.toDelete =
              expireSnapshots(last.pol,
                              [k \in 1..Len(FilteredNames) |-> storage[FilteredNames[k]]],
                              FilteredNames)

\* ---------------------------------------- claims on the tampered storage
\* The first chunk a Read from reader state pre has to load.
FirstLoad(pre) ==
    IF pre.currentChunkData = Nil THEN pre.currentChunkIndex
    ELSE pre.currentChunkIndex + 1

\* The bytes a Read from reader state pre delivers before it loads chunk t.
BytesBefore(pre, t) ==
    IF pre.currentChunkData = Nil
    THEN seekTable[t + 1].Start - seekTable[pre.currentChunkIndex + 1].Start
    ELSE (Len(pre.currentChunkData[1]) - pre.currentChunkPosition)
         + (seekTable[t + 1].Start
            - endOffset(seekTable[pre.currentChunkIndex + 1]))

\* The last call was a Read that had to load chunk t and whose storage reads
\* all succeeded.
MustLoad(t) ==
    /\ last.op = "Read"
    /\ last.arg > 0
    /\ t >= FirstLoad(last.pre)
    /\ BytesBefore(last.pre, t) < last.arg
    /\ last.err # "Storage"

OpensInFlight == {p \in Procs : procs[p].kind = "open" /\ ~procs[p].w.packed}

====
